---- MODULE Spec2Model ----
(***************************************************************************)
(* Novi payment pages: the checkout page (handlePayment) and the payment-  *)
(* request page (handleGeneratePaymentLink), together with the wallet and  *)
(* the settlement ledger they talk to.                                     *)
(*                                                                         *)
(* Amounts are integers counted in 10^-6 USDC, so the JavaScript number    *)
(* 5.00 is Num(5 * Unit); NaN is a value of its own.                       *)
(***************************************************************************)
EXTENDS Integers, Sequences, FiniteSets, TLC

\* ------------------------------------------------------------------ bounds
MaxAttempts == 2
MaxLen == 2
MaxTotalMills == 300
MaxParticipants == 3
MaxSignatures == 4

\* --------------------------------------------------------------- constants
USDC_DECIMALS == 6
\* Math.pow(10, USDC_DECIMALS): base units in one USDC
Unit == 10 ^ USDC_DECIMALS

\* a JavaScript number: NaN, or the value v
NaN == [nan |-> TRUE, v |-> 0]
Num(v) == [nan |-> FALSE, v |-> v]
\* the balance of a holding account that does not exist
Absent == 0 - 1

PayerAddr == "PayerAddr"
RecipientAddr == "RecipientAddr"
Owners == {PayerAddr, RecipientAddr}

\* the recipient query parameter: missing, malformed, or a well-formed address
RecipientParams == {"", "not-an-address", RecipientAddr, PayerAddr}
\* the amount query parameter, as the string found in the URL ("" is absent)
AmountParams == {"", "0", "-5", "abc", "5.00", "8.20"}
\* balances the payer's holding account can start with, in base units
StartBalances == {Absent, 5 * Unit, (82 * Unit) \div 10}

Pages == {"TransferRedirect", "PaymentRequest"}

VARIABLES
    page,                 \* which copy of the page is mounted
    recipient, amount,    \* searchParams
    connected,            \* useWallet().connected (publicKey is PayerAddr)
    error,                \* validation error state
    isProcessing,
    transactionStatus,
    transactionSignature,
    transactionError,
    err,                  \* what the catch block of handlePayment last received
    toast,                \* the last toast.error shown
    attempts,             \* the invocations of the handler, in start order
    ata,                  \* ledger: owner -> balance of its holding account
    txs,                  \* ledger: the submissions it accepted, in order
    results,              \* history: the failed results produced so far
    sinceFailed,          \* history: user actions since the last failure
    formAmount,           \* link forms: the amount field, as typed
    description,          \* link forms: the description field
    participants,         \* split form: how many participants were added
    copiedLink,           \* the query string of the link the form produced
    opened,               \* what searchParams.get returns on the opened link
    meta,                 \* the titles written for the opened link
    publicKey,            \* publicKey the wallet hook reports
    isAuthenticated,      \* WalletProvider: the session is authenticated
    walletAddress,        \* WalletProvider: the address of the session
    localStorage,         \* the three items WalletProvider keeps
    signedIn,             \* the address of the last signIn not yet ended
    signatures            \* how often the wallet was asked to sign

\* the state of the link forms and of a link opened from them
authVars == <<isAuthenticated, walletAddress, localStorage, signedIn, signatures>>
linkVars == <<formAmount, description, participants, copiedLink, opened, meta,
              publicKey, authVars>>

vars == <<page, recipient, amount, connected, error, isProcessing,
          transactionStatus, transactionSignature, transactionError, toast,
          attempts, ata, txs, results, sinceFailed, err, linkVars>>

\* ----------------------------------------------------------- pure helpers
\* parseFloat on the amount strings of AmountParams
parseFloat(s) ==
    CASE s = "0"    -> Num(0)
      [] s = "-5"   -> Num(0 - 5 * Unit)
      [] s = "5.00" -> Num(5 * Unit)
      [] s = "8.20" -> Num((82 * Unit) \div 10)
      [] OTHER      -> NaN

\* JavaScript comparisons: every comparison with NaN is false
JsLessEq(a, b) == ~a.nan /\ ~b.nan /\ a.v <= b.v
JsLess(a, b) == ~a.nan /\ ~b.nan /\ a.v < b.v

\* new PublicKey(s) returns for a base58 address and throws otherwise
IsPublicKey(s) == s \in Owners

NoToast == [kind |-> "none"]

\* validation effect of the checkout page, run when the page mounts
ValidationError(r, a) ==
    IF r = "" THEN "Missing required parameter: recipient wallet address"
    ELSE IF ~IsPublicKey(r) THEN "Invalid recipient wallet address"
    ELSE IF a = "" \/ JsLessEq(parseFloat(a), Num(0))
         THEN "Missing or invalid amount parameter"
    ELSE ""

\* validation effect of the payment-request page: the amount only
ValidationErrorRequest(a) ==
    IF a = "" \/ JsLessEq(parseFloat(a), Num(0))
    THEN "Missing or invalid amount parameter"
    ELSE ""

\* ------------------------------------------------------- thrown errors
\* err.message of the errors the wallet and the ledger client throw;
\* "" is an error without a message
MsgNotFound == "TokenAccountNotFoundError"
MsgInsufficient == "failed to send transaction: insufficient funds"
MsgRejected == "User rejected the request."
MsgFetch == "failed to fetch"
MsgExpired == "Signature has expired: block height exceeded."
MsgBigInt == "The number NaN cannot be converted to a BigInt because it is not an integer"
MsgReference == "recipientPubkey is not defined"
MsgPublicKey == "Invalid public key input"
MsgSimulation == "Simulation failed: could not find account, insufficient funds for rent"
MsgWallet == "User rejected the request: insufficient funds"
MsgNone == ""

SendErrors == {MsgRejected, MsgFetch, MsgSimulation, MsgWallet, MsgNone}
BlockhashErrors == {MsgFetch}
ConfirmErrors == {MsgExpired}

\* err.message?.includes(signal), for the messages above
Includes(msg, signal) ==
    \/ signal = "TokenAccountNotFoundError" /\ msg = MsgNotFound
    \/ signal = "could not find account" /\ msg = MsgSimulation
    \/ signal = "insufficient funds"
            /\ msg \in {MsgInsufficient, MsgSimulation, MsgWallet}
    \/ signal = "User rejected" /\ msg \in {MsgRejected, MsgWallet}

\* the classification with the wallet's rejection tested first
ErrorKindRejectedFirst(msg) ==
    IF Includes(msg, "User rejected") \/ Includes(msg, "User canceled")
    THEN "UserRejected"
    ELSE IF Includes(msg, "could not find account")
            \/ Includes(msg, "TokenAccountNotFoundError")
    THEN "AccountNotFound"
    ELSE IF Includes(msg, "insufficient funds")
            \/ Includes(msg, "Attempt to debit an account but found no record")
    THEN "InsufficientFunds"
    ELSE IF msg # "" THEN "Unknown"
    ELSE "Generic"

\* the error kind chosen by the catch block of the handler
ErrorKind(msg) ==
    IF Includes(msg, "could not find account") \/ Includes(msg, "TokenAccountNotFoundError")
    THEN "AccountNotFound"
    ELSE IF Includes(msg, "insufficient funds")
            \/ Includes(msg, "Attempt to debit an account but found no record")
    THEN "InsufficientFunds"
    ELSE IF Includes(msg, "User rejected") \/ Includes(msg, "User canceled")
    THEN "UserRejected"
    ELSE IF msg # "" THEN "Unknown"
    ELSE "Generic"

\* errorMessage of the catch block
ErrorMessage(msg) ==
    CASE ErrorKind(msg) = "AccountNotFound" ->
            "Your USDC account not found. Make sure you have USDC in your wallet."
      [] ErrorKind(msg) = "InsufficientFunds" ->
            "Insufficient USDC balance or SOL for transaction fees"
      [] ErrorKind(msg) = "UserRejected" -> "Transaction cancelled by user"
      [] ErrorKind(msg) = "Unknown" -> msg
      [] OTHER -> "Payment failed"

\* ------------------------------------------------------ operation lists
CreateOp(funder, owner) == [op |-> "create", funder |-> funder, owner |-> owner]
TransferOp(from, to, units) == [op |-> "transfer", from |-> from, to |-> to, units |-> units]

\* x * Math.pow(10, USDC_DECIMALS) in IEEE double arithmetic, less the exact
\* product, floored: 8.2 * 10^6 is 8199999.999999999
FloatError(a) == IF a = "8.20" THEN -1 ELSE 0

\* the conversion with NaN turned into 0, as (x || 0) would
AmountInTokenUnitsOrZero(a) ==
    IF parseFloat(a).nan THEN Num(0) ELSE Num(parseFloat(a).v + FloatError(a))

\* Math.floor(parseFloat(amount) * Math.pow(10, USDC_DECIMALS))
AmountInTokenUnits(a) ==
    IF parseFloat(a).nan THEN NaN ELSE Num(parseFloat(a).v + FloatError(a))

\* transaction.instructions after the recipient query: the create-account
\* instruction is added when getAccount threw, then the transfer
BuildInstructions(payer, rcpt, units, recipientQueryThrew) ==
    (IF recipientQueryThrew THEN <<CreateOp(payer, rcpt)>> ELSE <<>>)
        \o <<TransferOp(payer, rcpt, units)>>

\* ------------------------------------------------------------- ledger
\* the effect of one instruction on the holding accounts; ok is FALSE once
\* an instruction has failed: creating an account that exists, or
\* transferring from or to a missing account or more than the balance
ApplyOp(o, r) ==
    IF ~r.ok THEN r
    ELSE IF o.op = "create"
         THEN IF r.acc[o.owner] # Absent THEN [r EXCEPT !.ok = FALSE]
              ELSE [r EXCEPT !.acc[o.owner] = 0]
    ELSE IF r.acc[o.from] = Absent \/ r.acc[o.to] = Absent \/ r.acc[o.from] < o.units
         THEN [r EXCEPT !.ok = FALSE]
    ELSE IF o.from = o.to THEN r
    ELSE [r EXCEPT !.acc[o.from] = @ - o.units, !.acc[o.to] = @ + o.units]

\* a transaction runs its instructions in order, all or nothing
RECURSIVE Execute(_, _)
Execute(ops, r) ==
    IF ops = <<>> THEN r ELSE Execute(Tail(ops), ApplyOp(Head(ops), r))

Sig(i) == "sig" \o ToString(i)

\* ---------------------------------------------------------------- Init
NewAttempt ==
    [pc |-> "getPayer", payerFound |-> FALSE, payerBalance |-> Num(0),
     recipientAbsent |-> FALSE, instructions |-> <<>>, sent |-> 0,
     signature |-> "", warned |-> FALSE, outcome |-> "running"]

\* ------------------------------------------- link forms: numbers, text
\* Text is a sequence of characters; a word that holds none of the
\* characters the encoding treats specially stands as one element.
\* Amounts of the link forms are counted in thousandths of a dollar.
DigitChars == <<"0", "1", "2", "3", "4", "5", "6", "7", "8", "9">>
IsDigit(c) == \E d \in 1..10 : DigitChars[d] = c
DigitVal(c) == (CHOOSE d \in 1..10 : DigitChars[d] = c) - 1

RECURSIVE NatToString(_)
NatToString(n) ==
    IF n < 10 THEN <<DigitChars[n + 1]>>
    ELSE NatToString(n \div 10) \o <<DigitChars[(n % 10) + 1]>>

RECURSIVE StripZeros(_)
StripZeros(s) ==
    IF s # <<>> /\ s[Len(s)] = "0" THEN StripZeros(SubSeq(s, 1, Len(s) - 1))
    ELSE s

NaNText == <<"NaN">>

\* Number.prototype.toString: the shortest digits, no trailing zeros
NumberToString(x) ==
    IF x.nan THEN NaNText
    ELSE LET frac == x.v % 1000
         IN  NatToString(x.v \div 1000) \o
             (IF frac = 0 THEN <<>>
              ELSE <<".">> \o StripZeros(<<DigitChars[(frac \div 100) + 1],
                                           DigitChars[((frac \div 10) % 10) + 1],
                                           DigitChars[(frac % 10) + 1]>>))

\* (cents / 100).toFixed(2)
ToFixed2(cents) ==
    IF cents.nan THEN NaNText
    ELSE NatToString(cents.v \div 100) \o
         <<".", DigitChars[((cents.v \div 10) % 10) + 1], DigitChars[(cents.v % 10) + 1]>>

RECURSIVE LeadingDigits(_)
LeadingDigits(s) ==
    IF s = <<>> \/ ~IsDigit(Head(s)) THEN 0 ELSE 1 + LeadingDigits(Tail(s))

RECURSIVE DigitsValue(_)
DigitsValue(s) ==
    IF s = <<>> THEN 0
    ELSE DigitsValue(SubSeq(s, 1, Len(s) - 1)) * 10 + DigitVal(s[Len(s)])

\* parseFloat on typed text: the longest prefix digits[.digits], NaN when
\* it holds no digit; the forms type three decimals at most
parseFloatTyped(s) ==
    LET w == LeadingDigits(s)
        rest == SubSeq(s, w + 1, Len(s))
        f == IF rest # <<>> /\ Head(rest) = "." THEN LeadingDigits(Tail(rest)) ELSE 0
        fraction == SubSeq(SubSeq(rest, 2, 1 + f) \o <<"0", "0", "0">>, 1, 3)
    IN  IF w = 0 /\ f = 0 THEN NaN
        ELSE Num(DigitsValue(SubSeq(s, 1, w)) * 1000
                 + (IF f = 0 THEN 0 ELSE DigitsValue(fraction)))

\* ------------------------------------------------ link forms: the codec
\* the encoding with + left as it is
FormEncodeCharKeepingPlus(c) ==
    CASE c = " " -> <<"+">>
      [] c = "&" -> <<"%", "2", "6">>
      [] c = "=" -> <<"%", "3", "D">>
      [] c = "%" -> <<"%", "2", "5">>
      [] c = "U+00E9" -> <<"%", "C", "3", "%", "A", "9">>
      [] OTHER -> <<c>>

\* URLSearchParams.toString on one character of a name or value: a space
\* becomes +, a character outside the unreserved set becomes its UTF-8
\* bytes as %XX; "U+00E9" stands for the letter e with an acute accent
FormEncodeChar(c) ==
    CASE c = " " -> <<"+">>
      [] c = "&" -> <<"%", "2", "6">>
      [] c = "=" -> <<"%", "3", "D">>
      [] c = "%" -> <<"%", "2", "5">>
      [] c = "+" -> <<"%", "2", "B">>
      [] c = "U+00E9" -> <<"%", "C", "3", "%", "A", "9">>
      [] OTHER -> <<c>>

RECURSIVE FormEncode(_)
FormEncode(s) ==
    IF s = <<>> THEN <<>> ELSE FormEncodeChar(Head(s)) \o FormEncode(Tail(s))

\* URLSearchParams.toString: name=value pairs joined by &
RECURSIVE URLSearchParamsToString(_)
URLSearchParamsToString(pairs) ==
    IF pairs = <<>> THEN <<>>
    ELSE FormEncode(<<Head(pairs).name>>) \o <<"=">> \o FormEncode(Head(pairs).value)
         \o (IF Tail(pairs) = <<>> THEN <<>>
             ELSE <<"&">> \o URLSearchParamsToString(Tail(pairs)))

FirstIndex(s, c) ==
    CHOOSE i \in 1..Len(s) : s[i] = c /\ \A j \in 1..(i - 1) : s[j] # c

RECURSIVE SplitOn(_, _)
SplitOn(s, sep) ==
    IF \A i \in 1..Len(s) : s[i] # sep THEN <<s>>
    ELSE <<SubSeq(s, 1, FirstIndex(s, sep) - 1)>>
         \o SplitOn(SubSeq(s, FirstIndex(s, sep) + 1, Len(s)), sep)

IsHex(c) == IsDigit(c) \/ c \in {"A", "B", "C", "D", "E", "F", "a", "b", "c", "d", "e", "f"}

\* the byte %h1h2 stands for: an ASCII character, or a byte of a longer
\* UTF-8 sequence; the table holds the bytes the encoder above writes
ByteOf(h1, h2) ==
    CASE <<h1, h2>> = <<"2", "0">> -> " "
      [] <<h1, h2>> = <<"2", "5">> -> "%"
      [] <<h1, h2>> = <<"2", "6">> -> "&"
      [] <<h1, h2>> \in {<<"2", "B">>, <<"2", "b">>} -> "+"
      [] <<h1, h2>> \in {<<"3", "D">>, <<"3", "d">>} -> "="
      [] <<h1, h2>> \in {<<"C", "3">>, <<"c", "3">>} -> "xC3"
      [] <<h1, h2>> \in {<<"A", "9">>, <<"a", "9">>} -> "xA9"
      [] OTHER -> "x??"

RECURSIVE PercentDecode(_)
PercentDecode(s) ==
    IF s = <<>> THEN <<>>
    ELSE IF Head(s) = "%" /\ Len(s) >= 3 /\ IsHex(s[2]) /\ IsHex(s[3])
    THEN <<ByteOf(s[2], s[3])>> \o PercentDecode(SubSeq(s, 4, Len(s)))
    ELSE <<Head(s)>> \o PercentDecode(Tail(s))

\* bytes to text; a byte that is no part of a sequence becomes U+FFFD
RECURSIVE Utf8Decode(_)
Utf8Decode(s) ==
    IF s = <<>> THEN <<>>
    ELSE IF Len(s) >= 2 /\ s[1] = "xC3" /\ s[2] = "xA9"
    THEN <<"U+00E9">> \o Utf8Decode(SubSeq(s, 3, Len(s)))
    ELSE IF Head(s) \in {"xC3", "xA9", "x??"}
    THEN <<"U+FFFD">> \o Utf8Decode(Tail(s))
    ELSE <<Head(s)>> \o Utf8Decode(Tail(s))

\* the parser of URLSearchParams on one name or value: + becomes a space,
\* then the %XX bytes are decoded
FormDecode(s) ==
    Utf8Decode(PercentDecode([i \in 1..Len(s) |-> IF s[i] = "+" THEN " " ELSE s[i]]))

\* the parser of URLSearchParams on a query string
ParseQuery(q) ==
    LET segments == SelectSeq(SplitOn(q, "&"), LAMBDA g : g # <<>>)
        Pair(g) ==
            IF \E i \in 1..Len(g) : g[i] = "="
            THEN [name |-> FormDecode(SubSeq(g, 1, FirstIndex(g, "=") - 1)),
                  value |-> FormDecode(SubSeq(g, FirstIndex(g, "=") + 1, Len(g)))]
            ELSE [name |-> FormDecode(g), value |-> <<>>]
    IN  [i \in 1..Len(segments) |-> Pair(segments[i])]

\* searchParams.get(name): the first value under the name, or null
SearchParamsGet(pairs, name) ==
    IF \E i \in 1..Len(pairs) : pairs[i].name = <<name>>
    THEN [present |-> TRUE,
          value |-> pairs[CHOOSE i \in 1..Len(pairs) :
                            /\ pairs[i].name = <<name>>
                            /\ \A j \in 1..(i - 1) : pairs[j].name # <<name>>].value]
    ELSE [present |-> FALSE]

\* publicKey of useWallet while no wallet is connected: null
NoKey == ""

\* localStorage without the items of WalletProvider; "" is a missing item
NoItems == [wallet_authenticated |-> "", wallet_address |-> "", wallet_signature |-> <<>>]

\* WalletProvider as useState initialises it, over an empty localStorage
NoSession ==
    /\ isAuthenticated = FALSE
    /\ walletAddress = NoKey
    /\ localStorage = NoItems
    /\ signedIn = NoKey
    /\ signatures = 0

\* neither the responder nor the hook has written a title
NoMeta == [og |-> "none", document |-> "default"]

\* no link form is open and no link has been produced or opened
NoForm ==
    /\ formAmount = <<>>
    /\ description = <<>>
    /\ participants = 0
    /\ copiedLink = <<>>
    /\ opened = [isOpen |-> FALSE]
    /\ meta = NoMeta
    /\ publicKey = NoKey
    /\ NoSession

Init ==
    /\ page \in Pages
    /\ recipient \in RecipientParams
    /\ amount \in AmountParams
    /\ connected = FALSE
    /\ error = IF page = "TransferRedirect" THEN ValidationError(recipient, amount)
               ELSE ValidationErrorRequest(amount)
    /\ isProcessing = FALSE
    /\ transactionStatus = "idle"
    /\ transactionSignature = ""
    /\ transactionError = ""
    /\ toast = NoToast
    /\ attempts = <<>>
    /\ \E pb \in StartBalances :
          ata = [o \in Owners |-> IF o = PayerAddr THEN pb ELSE Absent]
    /\ txs = <<>>
    /\ results = {}
    /\ sinceFailed = "none"
    /\ err = [thrown |-> FALSE]
    /\ NoForm

\* ---------------------------------------------------------------- views
\* the page without its failed view
ViewWithoutFailed ==
    IF transactionStatus = "success" THEN "success"
    ELSE IF error # "" THEN "error"
    ELSE "main"

\* which of the page's four returns is rendered
View ==
    IF transactionStatus = "success" THEN "success"
    ELSE IF transactionStatus = "failed" THEN "failed"
    ELSE IF error # "" THEN "error"
    ELSE "main"

\* the pay button without its disabled attribute
PayButtonNeverDisabled == View = "main" /\ connected

\* the pay button is rendered in the main view of a connected wallet and
\* is disabled while isProcessing
PayButtonEnabled == View = "main" /\ connected /\ ~isProcessing

InFlight == {i \in 1..Len(attempts) : attempts[i].pc # "done"}

\* --------------------------------------------------- handler fragments
\* an early return of the handler that only shows a toast
ToastOnly(text) ==
    /\ toast' = [kind |-> "error", text |-> text]
    /\ UNCHANGED <<linkVars, err, page, recipient, amount, connected, error, isProcessing,
                   transactionStatus, transactionSignature, transactionError,
                   attempts, ata, txs, results, sinceFailed>>

\* the catch block without the finally block
CatchWithoutFinally(msg, landed) ==
    /\ transactionStatus' = "failed"
    /\ transactionError' = ErrorMessage(msg)
    /\ toast' = [kind |-> "error", text |-> ErrorMessage(msg)]
    /\ isProcessing' = isProcessing
    /\ results' = results \cup {[kind |-> ErrorKind(msg), landed |-> landed]}
    /\ sinceFailed' = "failed"
    /\ err' = [thrown |-> TRUE, message |-> msg]

\* the catch block followed by the finally block; landed tells whether the
\* submission of this invocation had been accepted
Catch(msg, landed) ==
    /\ transactionStatus' = "failed"
    /\ transactionError' = ErrorMessage(msg)
    /\ toast' = [kind |-> "error", text |-> ErrorMessage(msg)]
    /\ isProcessing' = FALSE
    /\ results' = results \cup {[kind |-> ErrorKind(msg), landed |-> landed]}
    /\ sinceFailed' = "failed"
    /\ err' = [thrown |-> TRUE, message |-> msg]

\* the invocation i ends
Done(i, outcome) ==
    attempts' = [attempts EXCEPT ![i].pc = "done", ![i].outcome = outcome]

\* ------------------------------------------------- handlePayment, start
\* click on the pay button: the synchronous part of handlePayment up to
\* its first await
ClickPay ==
    /\ page = "TransferRedirect"
    /\ PayButtonEnabled
    /\ Len(attempts) < MaxAttempts
    /\ IF ~connected
       THEN ToastOnly("Please connect your wallet first")
       ELSE IF recipient = "" \/ amount = "" \/ JsLessEq(parseFloat(amount), Num(0))
       THEN ToastOnly("Invalid payment parameters")
       ELSE IF ~IsPublicKey(recipient)
       THEN /\ Catch(MsgPublicKey, FALSE)
            /\ attempts' = Append(attempts,
                    [NewAttempt EXCEPT !.pc = "done", !.outcome = "DecodeError"])
            /\ UNCHANGED <<linkVars, page, recipient, amount, connected, error,
                           transactionSignature, ata, txs>>
       ELSE /\ isProcessing' = TRUE
            /\ transactionStatus' = "processing"
            /\ attempts' = Append(attempts, NewAttempt)
            /\ sinceFailed' = IF sinceFailed = "tryAgain" THEN "pay" ELSE sinceFailed
            /\ UNCHANGED <<linkVars, err, page, recipient, amount, connected, error,
                           transactionSignature, transactionError, toast,
                           ata, txs, results>>

\* ---------------------------------------------- handlePayment, the awaits
\* getAccount on the payer's holding account throws: the account is
\* missing, or the query failed; the inner catch shows a toast and returns
PayerQueryThrows(i) ==
    /\ attempts[i].pc = "getPayer"
    /\ toast' = [kind |-> "PayerAccountMissing"]
    /\ isProcessing' = FALSE
    /\ Done(i, "PayerAccountMissing")
    /\ UNCHANGED <<linkVars, err, page, recipient, amount, connected, error,
                   transactionStatus, transactionSignature, transactionError,
                   ata, txs, results, sinceFailed>>

\* the balance check with the comparison turned around
InsufficientBalanceReversed(payerBalance, requiredAmount) ==
    JsLess(requiredAmount, payerBalance)

\* payerBalance < requiredAmount
InsufficientBalance(payerBalance, requiredAmount) ==
    JsLess(payerBalance, requiredAmount)

\* getAccount on the payer's holding account returns its balance; the
\* handler compares it with the required amount
PayerQueryReturns(i) ==
    /\ attempts[i].pc = "getPayer"
    /\ ata[PayerAddr] # Absent
    /\ LET payerBalance == Num(ata[PayerAddr])
           requiredAmount == parseFloat(amount)
       IN  IF InsufficientBalance(payerBalance, requiredAmount)
           THEN /\ toast' = [kind |-> "InsufficientBalance",
                             balance |-> payerBalance, required |-> requiredAmount]
                /\ isProcessing' = FALSE
                /\ attempts' = [attempts EXCEPT ![i].pc = "done",
                                    ![i].outcome = "InsufficientBalance",
                                    ![i].payerFound = TRUE,
                                    ![i].payerBalance = payerBalance]
           ELSE /\ attempts' = [attempts EXCEPT ![i].pc = "getRecipient",
                                    ![i].payerFound = TRUE,
                                    ![i].payerBalance = payerBalance]
                /\ UNCHANGED <<toast, isProcessing>>
    /\ UNCHANGED <<linkVars, err, page, recipient, amount, connected, error,
                   transactionStatus, transactionSignature, transactionError,
                   ata, txs, results, sinceFailed>>

\* getAccount on the recipient's holding account returns or throws (the
\* account is missing, or the query failed); the instructions are added;
\* createTransferInstruction throws on an amount that is not an integer
RecipientQuery(i, threw) ==
    /\ attempts[i].pc = "getRecipient"
    /\ ata[recipient] = Absent => threw
    /\ LET units == AmountInTokenUnits(amount)
       IN  IF units.nan
           THEN /\ Catch(MsgBigInt, FALSE)
                /\ Done(i, "BuildError")
                /\ UNCHANGED <<linkVars, page, recipient, amount, connected, error,
                               transactionSignature, ata, txs>>
           ELSE /\ attempts' = [attempts EXCEPT ![i].pc = "send",
                        ![i].recipientAbsent = (ata[recipient] = Absent),
                        ![i].instructions =
                            BuildInstructions(PayerAddr, recipient, units.v, threw)]
                /\ UNCHANGED <<linkVars, err, page, recipient, amount, connected, error,
                               isProcessing, transactionStatus,
                               transactionSignature, transactionError, toast,
                               ata, txs, results, sinceFailed>>

\* sendTransaction throws: the wallet or the network refused the transaction
SendThrows(i, msg) ==
    /\ attempts[i].pc = "send"
    /\ Catch(msg, FALSE)
    /\ attempts' = [attempts EXCEPT ![i].pc = "done", ![i].sent = @ + 1,
                                    ![i].outcome = "ExecutionError"]
    /\ UNCHANGED <<linkVars, page, recipient, amount, connected, error,
                   transactionSignature, ata, txs>>

\* one submission for each instruction
SubmissionPerInstruction(i, instructions) ==
    [j \in 1..Len(instructions) |->
        [sig |-> Sig(Len(txs) + j), attempt |-> i, ops |-> <<instructions[j]>>,
         state |-> "pending"]]

\* what one sendTransaction call hands to the ledger
Submission(i, instructions) ==
    <<[sig |-> Sig(Len(txs) + 1), attempt |-> i, ops |-> instructions,
       state |-> "pending"]>>

\* sendTransaction returns the signature of the accepted transaction,
\* which the handler stores at once
SendReturns(i) ==
    /\ attempts[i].pc = "send"
    /\ txs' = txs \o Submission(i, attempts[i].instructions)
    /\ transactionSignature' = Sig(Len(txs) + 1)
    /\ attempts' = [attempts EXCEPT ![i].pc = "blockhash", ![i].sent = @ + 1,
                                    ![i].signature = Sig(Len(txs) + 1)]
    /\ UNCHANGED <<linkVars, err, page, recipient, amount, connected, error, isProcessing,
                   transactionStatus, transactionError, toast, ata,
                   results, sinceFailed>>

\* getLatestBlockhash returns
BlockhashReturns(i) ==
    /\ attempts[i].pc = "blockhash"
    /\ attempts' = [attempts EXCEPT ![i].pc = "confirm"]
    /\ UNCHANGED <<linkVars, err, page, recipient, amount, connected, error, isProcessing,
                   transactionStatus, transactionSignature, transactionError,
                   toast, ata, txs, results, sinceFailed>>

\* getLatestBlockhash or confirmTransaction throws
AfterSendThrows(i, msg) ==
    /\ \/ attempts[i].pc = "blockhash" /\ msg \in BlockhashErrors
       \/ attempts[i].pc = "confirm" /\ msg \in ConfirmErrors
    /\ Catch(msg, TRUE)
    /\ Done(i, "ExecutionError")
    /\ UNCHANGED <<linkVars, page, recipient, amount, connected, error,
                   transactionSignature, ata, txs>>

\* the transaction with this signature is known to the ledger
IsAccepted(sig) == \E k \in 1..Len(txs) : txs[k].sig = sig

\* the transaction with this signature is finalized on the ledger
IsFinalized(sig) ==
    \E k \in 1..Len(txs) : txs[k].sig = sig /\ txs[k].state \in {"finalized", "finalizedErr"}

\* confirmTransaction(..., "finalized") returns once the transaction is
\* finalized; its result value is not looked at
ConfirmReturns(i) ==
    /\ attempts[i].pc = "confirm"
    /\ IsFinalized(attempts[i].signature)
    /\ attempts' = [attempts EXCEPT ![i].pc = "verify"]
    /\ UNCHANGED <<linkVars, err, page, recipient, amount, connected, error, isProcessing,
                   transactionStatus, transactionSignature, transactionError,
                   toast, ata, txs, results, sinceFailed>>

\* the balance verification reads the payer's balance again and only
\* logs: a warning when it equals the snapshot, an error when the query
\* throws; then the status becomes success
VerifyAndSucceed(i, threw) ==
    /\ attempts[i].pc = "verify"
    /\ ata[PayerAddr] = Absent => threw
    /\ transactionStatus' = "success"
    /\ isProcessing' = FALSE
    /\ attempts' = [attempts EXCEPT ![i].pc = "done", ![i].outcome = "success",
            ![i].warned = (~threw /\ Num(ata[PayerAddr]) = attempts[i].payerBalance)]
    /\ UNCHANGED <<linkVars, err, page, recipient, amount, connected, error,
                   transactionSignature, transactionError, toast, ata, txs,
                   results, sinceFailed>>

\* -------------------------------------------------- the other handlers
\* Try Again leaving the signature of the failed attempt in place
TryAgainKeepsSignature ==
    /\ View = "failed"
    /\ transactionStatus' = "idle"
    /\ transactionError' = ""
    /\ sinceFailed' = "tryAgain"
    /\ UNCHANGED <<linkVars, err, page, recipient, amount, connected, error, isProcessing,
                   transactionSignature, toast, attempts, ata, txs, results>>

\* Try Again, rendered in the failed view only
TryAgain ==
    /\ View = "failed"
    /\ transactionStatus' = "idle"
    /\ transactionError' = ""
    /\ transactionSignature' = ""
    /\ sinceFailed' = "tryAgain"
    /\ UNCHANGED <<linkVars, err, page, recipient, amount, connected, error, isProcessing,
                   toast, attempts, ata, txs, results>>

\* click on the generate button of the payment-request page: building
\* urlFields reads recipientPubkey, which this copy never declares, so the
\* try block throws a ReferenceError before it builds the link
ClickGenerate ==
    /\ page = "PaymentRequest"
    /\ PayButtonEnabled
    /\ IF ~connected
       THEN ToastOnly("Please connect your wallet first")
       ELSE IF amount = "" \/ JsLessEq(parseFloat(amount), Num(0))
       THEN ToastOnly("Invalid amount")
       ELSE /\ Catch(MsgReference, FALSE)
            /\ UNCHANGED <<linkVars, page, recipient, amount, connected, error,
                           transactionSignature, attempts, ata, txs>>

\* ------------------------------------------------------------- wallet
Connect ==
    /\ ~connected
    /\ connected' = TRUE
    /\ UNCHANGED <<linkVars, err, page, recipient, amount, error, isProcessing,
                   transactionStatus, transactionSignature, transactionError,
                   toast, attempts, ata, txs, results, sinceFailed>>

Disconnect ==
    /\ connected
    /\ connected' = FALSE
    /\ UNCHANGED <<linkVars, err, page, recipient, amount, error, isProcessing,
                   transactionStatus, transactionSignature, transactionError,
                   toast, attempts, ata, txs, results, sinceFailed>>

\* ------------------------------------------------------------- ledger
\* the ledger finalizes an accepted transaction: its instructions take
\* effect together, or none does
Finalize(k) ==
    /\ txs[k].state = "pending"
    /\ LET r == Execute(txs[k].ops, [ok |-> TRUE, acc |-> ata])
       IN  /\ ata' = IF r.ok THEN r.acc ELSE ata
           /\ txs' = [txs EXCEPT ![k].state =
                          IF r.ok THEN "finalized" ELSE "finalizedErr"]
    /\ UNCHANGED <<linkVars, err, page, recipient, amount, connected, error, isProcessing,
                   transactionStatus, transactionSignature, transactionError,
                   toast, attempts, results, sinceFailed>>

\* somebody else creates the recipient's holding account
CreateRecipientAccount ==
    /\ ata[RecipientAddr] = Absent
    /\ ata' = [ata EXCEPT ![RecipientAddr] = 0]
    /\ UNCHANGED <<linkVars, err, page, recipient, amount, connected, error, isProcessing,
                   transactionStatus, transactionSignature, transactionError,
                   toast, attempts, txs, results, sinceFailed>>

\* ---------------------------------------------------------------- Next
Next ==
    \/ ClickPay
    \/ \E i \in 1..Len(attempts) : PayerQueryThrows(i)
    \/ \E i \in 1..Len(attempts) : PayerQueryReturns(i)
    \/ \E i \in 1..Len(attempts), threw \in BOOLEAN : RecipientQuery(i, threw)
    \/ \E i \in 1..Len(attempts), msg \in SendErrors : SendThrows(i, msg)
    \/ \E i \in 1..Len(attempts) : SendReturns(i)
    \/ \E i \in 1..Len(attempts) : BlockhashReturns(i)
    \/ \E i \in 1..Len(attempts), msg \in BlockhashErrors \cup ConfirmErrors :
            AfterSendThrows(i, msg)
    \/ \E i \in 1..Len(attempts) : ConfirmReturns(i)
    \/ \E i \in 1..Len(attempts), threw \in BOOLEAN : VerifyAndSucceed(i, threw)
    \/ TryAgain
    \/ ClickGenerate
    \/ Connect
    \/ Disconnect
    \/ \E k \in 1..Len(txs) : Finalize(k)
    \/ CreateRecipientAccount

Spec == Init /\ [][Next]_vars

\* ============================================== the link forms (Pay, Request)
FormPages == {"Pay", "Request"}

\* the characters a description is typed from
DescriptionChars == {"a", "2", " ", "&", "=", "%", "+", "U+00E9"}
Descriptions == UNION {[1..k -> DescriptionChars] : k \in 0..MaxLen}

\* the totals typed into the amount field, in thousandths: every total
\* up to the bound, and 9.99 and 10.00
FormTotals == (0..MaxTotalMills) \cup {9990, 10000}

\* what handleAmountChange lets through for a total: its shortest form,
\* and its form with two decimals; also the empty field and a lone point
Typed(m) ==
    {NumberToString(Num(m))}
        \cup (IF m % 10 = 0 THEN {ToFixed2(Num(m \div 10))} ELSE {})
AmountInputs == UNION {Typed(m) : m \in FormTotals} \cup {<<>>, <<".">>}

\* description.trim()
Trim(s) == SelectSeq(s, LAMBDA c : c # " ")

\* totals under 1.005 whose product with 100 is, in IEEE double
\* arithmetic, just under a half: 0.145 * 100 is 14.499999999999998
HalfBelow == {145, 285, 565, 575}

\* Math.round(total * 100), for totals under 1.005 and for totals of
\* two decimals
MathRoundTimes100(total) ==
    IF total.nan THEN NaN
    ELSE IF total.v \in HalfBelow THEN Num(total.v \div 10)
    ELSE Num((total.v + 5) \div 10)

\* the base share rounded up
BaseShareCentsCeil(totalCents, splitCount) ==
    IF totalCents.nan THEN NaN
    ELSE Num((totalCents.v + splitCount - 1) \div splitCount)

\* Math.floor(totalCents / splitCount)
BaseShareCents(totalCents, splitCount) ==
    IF totalCents.nan THEN NaN ELSE Num(totalCents.v \div splitCount)

\* totalCents % splitCount
Remainder(totalCents, splitCount) ==
    IF totalCents.nan THEN NaN ELSE Num(totalCents.v % splitCount)

LinkInit ==
    /\ page \in FormPages
    /\ connected \in BOOLEAN
    /\ \/ /\ formAmount \in AmountInputs
          /\ description = <<"a">>
          /\ participants \in (IF page = "Pay" THEN {0} ELSE 0..MaxParticipants)
       \/ /\ formAmount \in {<<"5">>, <<"0", ".", "5", "0">>}
          /\ description \in Descriptions
          /\ participants \in (IF page = "Pay" THEN {0} ELSE {0, 2})
    /\ copiedLink = <<>>
    /\ opened = [isOpen |-> FALSE]
    /\ meta = NoMeta
    /\ publicKey = (IF connected THEN PayerAddr ELSE NoKey)
    /\ NoSession
    /\ recipient = ""
    /\ amount = ""
    /\ error = ""
    /\ isProcessing = FALSE
    /\ transactionStatus = "idle"
    /\ transactionSignature = ""
    /\ transactionError = ""
    /\ err = [thrown |-> FALSE]
    /\ toast = NoToast
    /\ attempts = <<>>
    /\ ata = [o \in Owners |-> Absent]
    /\ txs = <<>>
    /\ results = {}
    /\ sinceFailed = "none"

\* the link forms leave the checkout page and the ledger alone
CheckoutUnchanged ==
    UNCHANGED <<authVars, err, page, recipient, amount, connected, error, isProcessing,
                transactionStatus, transactionSignature, transactionError,
                toast, attempts, ata, txs, results, sinceFailed>>

\* the wallet test that forgets the key
WalletMissingIgnoringKey == ~connected

\* !connected || !publicKey
WalletMissing == ~connected \/ publicKey = NoKey

\* handlePay of the Pay form: the link carries the amount as typed; it is
\* kept in paymentUrl whether or not the copy to the clipboard succeeds
handlePay ==
    /\ page = "Pay"
    /\ IF WalletMissing
       THEN ToastOnly("Please connect your wallet first")
       ELSE IF formAmount = <<>> \/ JsLessEq(parseFloatTyped(formAmount), Num(0))
       THEN ToastOnly("Please enter an amount")
       ELSE IF Trim(description) = <<>>
       THEN ToastOnly("Please add what this is for")
       ELSE /\ copiedLink' = URLSearchParamsToString(<<
                    [name |-> "recipient", value |-> <<publicKey>>],
                    [name |-> "amount", value |-> formAmount],
                    [name |-> "label", value |-> description],
                    [name |-> "message",
                     value |-> <<"Payment", " ", "for", " ">> \o description]>>)
            /\ UNCHANGED <<formAmount, description, participants, opened, meta, publicKey>>
            /\ CheckoutUnchanged

\* handleRequest of the split form: every participant is handed the one
\* link, whose amount is the base share; the remainder is only logged.
\* The link is kept in copiedLink unless both ways of copying it fail
handleRequest(copyFailed) ==
    /\ page = "Request"
    /\ IF WalletMissing
       THEN ToastOnly("Please connect your wallet first")
       ELSE IF formAmount = <<>> \/ JsLessEq(parseFloatTyped(formAmount), Num(0))
       THEN ToastOnly("Please enter an amount")
       ELSE IF Trim(description) = <<>>
       THEN ToastOnly("Please add what this is for")
       ELSE IF copyFailed
       THEN ToastOnly("Failed to copy link. Please try again.")
       ELSE LET total == parseFloatTyped(formAmount)
                splitCount == participants + 1
                totalCents == MathRoundTimes100(total)
                baseShareCents == BaseShareCents(totalCents, splitCount)
                perShareAmount == ToFixed2(baseShareCents)
            IN  /\ copiedLink' = URLSearchParamsToString(<<
                        [name |-> "recipient", value |-> <<publicKey>>],
                        [name |-> "amount", value |-> perShareAmount],
                        [name |-> "label", value |-> description],
                        [name |-> "message",
                         value |-> <<"Split", " ", "payment", " ", "for", " ">>
                                        \o description],
                        [name |-> "total", value |-> NumberToString(total)],
                        [name |-> "splitCount", value |-> NatToString(splitCount)]>>)
                /\ UNCHANGED <<formAmount, description, participants, opened, meta, publicKey>>
                /\ CheckoutUnchanged

\* totals and numbers of shares whose quotient is, in IEEE double
\* arithmetic, just under half a cent: 0.03 / 2 is 0.01499999999999999944
QuotientHalfBelow ==
    {<<30, 2>>, <<45, 3>>, <<60, 4>>, <<75, 3>>, <<75, 5>>, <<90, 2>>,
     <<105, 3>>, <<150, 2>>, <<175, 5>>, <<180, 4>>, <<210, 2>>, <<225, 3>>,
     <<225, 5>>, <<285, 3>>, <<290, 2>>, <<300, 4>>}

\* (total / n).toFixed(2): the quotient rounded to the nearest cent, for
\* totals of FormTotals and up to five shares
QuotientToFixed2(total, n) ==
    IF total.nan THEN NaNText
    ELSE IF <<total.v, n>> \in QuotientHalfBelow
    THEN ToFixed2(Num(total.v \div (10 * n)))
    ELSE ToFixed2(Num((2 * total.v + 10 * n) \div (20 * n)))

\* the split form shows the 'Each person pays' box
EachPersonPaysShown ==
    /\ page = "Request"
    /\ participants > 0
    /\ formAmount # <<>>
    /\ JsLess(Num(0), parseFloatTyped(formAmount))

\* the amount in the 'Each person pays' box
EachPersonPays == QuotientToFixed2(parseFloatTyped(formAmount), participants + 1)

\* whether a value searchParams.get returned is truthy: neither null nor ""
Truthy(p) == p.present /\ p.value # <<>>

\* isSplitPayment of the checkout page: splitCount && total
isSplitPayment(params) == Truthy(params.splitCount) /\ Truthy(params.total)

\* the link is opened: the checkout page reads its parameters
OpenLink ==
    /\ copiedLink # <<>>
    /\ LET pairs == ParseQuery(copiedLink)
       IN  opened' = [isOpen |-> TRUE,
                      recipient |-> SearchParamsGet(pairs, "recipient"),
                      amount |-> SearchParamsGet(pairs, "amount"),
                      label |-> SearchParamsGet(pairs, "label"),
                      message |-> SearchParamsGet(pairs, "message"),
                      total |-> SearchParamsGet(pairs, "total"),
                      splitCount |-> SearchParamsGet(pairs, "splitCount")]
    /\ UNCHANGED <<formAmount, description, participants, copiedLink, meta,
                   publicKey>>
    /\ CheckoutUnchanged

LinkNext ==
    \/ handlePay
    \/ \E copyFailed \in BOOLEAN : handleRequest(copyFailed)
    \/ OpenLink

LinkSpec == LinkInit /\ [][LinkNext]_vars

\* ------------------------------------------------ the wallet of the forms
\* what a form is filled with while the wallet comes and goes
WalletDescriptions == {<<>>, <<" ">>, <<"a">>}

WalletInit ==
    /\ page \in FormPages
    /\ connected = FALSE
    /\ publicKey = NoKey
    /\ formAmount \in {<<>>, <<"5">>}
    /\ description \in WalletDescriptions
    /\ participants \in (IF page = "Pay" THEN {0} ELSE {0, 1})
    /\ copiedLink = <<>>
    /\ opened = [isOpen |-> FALSE]
    /\ meta = NoMeta
    /\ NoSession
    /\ recipient = ""
    /\ amount = ""
    /\ error = ""
    /\ isProcessing = FALSE
    /\ transactionStatus = "idle"
    /\ transactionSignature = ""
    /\ transactionError = ""
    /\ err = [thrown |-> FALSE]
    /\ toast = NoToast
    /\ attempts = <<>>
    /\ ata = [o \in Owners |-> Absent]
    /\ txs = <<>>
    /\ results = {}
    /\ sinceFailed = "none"

\* the wallet connects, by connect() or by the provider's connect event;
\* the key it reports may be missing
connect(key) ==
    /\ connected' = TRUE
    /\ publicKey' = key
    /\ UNCHANGED <<formAmount, description, participants, copiedLink, opened, meta>>
    /\ UNCHANGED <<authVars, err, page, recipient, amount, error, isProcessing,
                   transactionStatus, transactionSignature, transactionError,
                   toast, attempts, ata, txs, results, sinceFailed>>

\* the wallet disconnects, by disconnect() or by the provider's event
disconnect ==
    /\ connected
    /\ connected' = FALSE
    /\ publicKey' = NoKey
    /\ UNCHANGED <<formAmount, description, participants, copiedLink, opened, meta>>
    /\ UNCHANGED <<authVars, err, page, recipient, amount, error, isProcessing,
                   transactionStatus, transactionSignature, transactionError,
                   toast, attempts, ata, txs, results, sinceFailed>>

\* the description field is edited
setDescription(value) ==
    /\ description' = value
    /\ UNCHANGED <<formAmount, participants, copiedLink, opened, meta, publicKey>>
    /\ CheckoutUnchanged

WalletNext ==
    \/ \E key \in Owners \cup {NoKey} : connect(key)
    \/ disconnect
    \/ \E value \in WalletDescriptions : setDescription(value)
    \/ handlePay
    \/ \E copyFailed \in BOOLEAN : handleRequest(copyFailed)

WalletSpec == WalletInit /\ [][WalletNext]_vars

\* ------------------------------------------------ the signed-in session
AuthInit ==
    /\ page = "TransferRedirect"
    /\ connected = FALSE
    /\ NoForm
    /\ recipient = ""
    /\ amount = ""
    /\ error = ""
    /\ isProcessing = FALSE
    /\ transactionStatus = "idle"
    /\ transactionSignature = ""
    /\ transactionError = ""
    /\ err = [thrown |-> FALSE]
    /\ toast = NoToast
    /\ attempts = <<>>
    /\ ata = [o \in Owners |-> Absent]
    /\ txs = <<>>
    /\ results = {}
    /\ sinceFailed = "none"

\* the session effect: a stored session is taken up again when the
\* connected wallet is the stored one
SessionEffect(conn, key, items, session) ==
    IF /\ items.wallet_authenticated = "true"
       /\ items.wallet_address # NoKey
       /\ conn
       /\ key = items.wallet_address
    THEN [isAuthenticated |-> TRUE, walletAddress |-> items.wallet_address]
    ELSE session

\* the disconnect effect: without a connected wallet the session is
\* reset and its two items are removed
DisconnectEffect(conn, items, session) ==
    IF ~conn
    THEN [session |-> [isAuthenticated |-> FALSE, walletAddress |-> NoKey],
          items |-> [items EXCEPT !.wallet_authenticated = "",
                                  !.wallet_address = ""]]
    ELSE [session |-> session, items |-> items]

\* the two effects run, in the order of their declaration, after a render
\* in which connected or publicKey has changed
RunEffects(conn, key, session) ==
    LET after == DisconnectEffect(conn, localStorage,
                                  SessionEffect(conn, key, localStorage, session))
    IN  /\ isAuthenticated' = after.session.isAuthenticated
        /\ walletAddress' = after.session.walletAddress
        /\ localStorage' = after.items

AuthUnchanged ==
    UNCHANGED <<formAmount, description, participants, copiedLink, opened, meta,
                err, page, recipient, amount, error, isProcessing,
                transactionStatus, transactionSignature, transactionError,
                toast, attempts, ata, txs, results, sinceFailed>>

\* the page is loaded again: the provider mounts with its initial state
\* and a wallet that is not connected yet; localStorage is what it was
Mount ==
    /\ connected' = FALSE
    /\ publicKey' = NoKey
    /\ RunEffects(FALSE, NoKey, [isAuthenticated |-> FALSE, walletAddress |-> NoKey])
    /\ UNCHANGED <<signedIn, signatures>>
    /\ AuthUnchanged

\* the wallet adapter connects, by autoConnect or on the user's choice
adapterConnect(key) ==
    /\ ~connected
    /\ connected' = TRUE
    /\ publicKey' = key
    /\ RunEffects(TRUE, key, [isAuthenticated |-> isAuthenticated,
                              walletAddress |-> walletAddress])
    /\ UNCHANGED <<signedIn, signatures>>
    /\ AuthUnchanged

\* the user disconnects the wallet
adapterDisconnect ==
    /\ connected
    /\ connected' = FALSE
    /\ publicKey' = NoKey
    /\ RunEffects(FALSE, NoKey, [isAuthenticated |-> isAuthenticated,
                                 walletAddress |-> walletAddress])
    /\ signedIn' = NoKey
    /\ UNCHANGED signatures
    /\ AuthUnchanged

\* signIn: the wallet is asked to sign; it signs or the user declines
signIn(declined) ==
    /\ connected
    /\ publicKey # NoKey
    /\ signatures < MaxSignatures
    /\ signatures' = signatures + 1
    /\ IF declined
       THEN UNCHANGED <<isAuthenticated, walletAddress, localStorage, signedIn>>
       ELSE /\ isAuthenticated' = TRUE
            /\ walletAddress' = publicKey
            /\ localStorage' = [wallet_authenticated |-> "true",
                                wallet_address |-> publicKey,
                                wallet_signature |-> <<publicKey, signatures + 1>>]
            /\ signedIn' = publicKey
    /\ UNCHANGED <<connected, publicKey>>
    /\ AuthUnchanged

\* signOut: the session and its three items are dropped and the wallet
\* is disconnected
signOut ==
    /\ isAuthenticated' = FALSE
    /\ walletAddress' = NoKey
    /\ localStorage' = NoItems
    /\ connected' = FALSE
    /\ publicKey' = NoKey
    /\ signedIn' = NoKey
    /\ UNCHANGED signatures
    /\ AuthUnchanged

AuthNext ==
    \/ Mount
    \/ \E key \in Owners : adapterConnect(key)
    \/ adapterDisconnect
    \/ \E declined \in BOOLEAN : signIn(declined)
    \/ signOut

AuthSpec == AuthInit /\ [][AuthNext]_vars

\* ------------------------------------------------ social previews of a link
\* a parameter of a hand-written query: absent, empty or with a value
ParamChoices(name, value) ==
    {<<>>, <<[name |-> name, value |-> <<>>]>>, <<[name |-> name, value |-> value]>>}

\* the queries a link can be opened with, whoever wrote it
Queries ==
    {URLSearchParamsToString(<<[name |-> "recipient", value |-> <<"R">>]>>
                             \o a \o l \o m \o t \o c) :
        a \in ParamChoices("amount", <<"3", ".", "3", "3">>),
        l \in ParamChoices("label", <<"a">>),
        m \in {<<>>, <<[name |-> "message", value |-> <<"a">>]>>},
        t \in ParamChoices("total", <<"1", "0">>),
        c \in ParamChoices("splitCount", <<"3">>)}

QueryInit ==
    /\ page = "TransferRedirect"
    /\ connected = FALSE
    /\ formAmount = <<>>
    /\ description = <<>>
    /\ participants = 0
    /\ copiedLink \in Queries
    /\ opened = [isOpen |-> FALSE]
    /\ meta = NoMeta
    /\ publicKey = NoKey
    /\ NoSession
    /\ recipient = ""
    /\ amount = ""
    /\ error = ""
    /\ isProcessing = FALSE
    /\ transactionStatus = "idle"
    /\ transactionSignature = ""
    /\ transactionError = ""
    /\ err = [thrown |-> FALSE]
    /\ toast = NoToast
    /\ attempts = <<>>
    /\ ata = [o \in Owners |-> Absent]
    /\ txs = <<>>
    /\ results = {}
    /\ sinceFailed = "none"

\* the split test of the responder, on what its own searchParams.get returns
handlerIsSplitPaymentCountOnly(splitCount, total) == Truthy(splitCount)
handlerIsSplitPayment(splitCount, total) == Truthy(splitCount) /\ Truthy(total)

\* the responder answers a request for the link: a crawler gets the page
\* with the title built from the query, anyone else gets index.html
handler(isBot) ==
    /\ LET searchParams == ParseQuery(copiedLink)
           total == SearchParamsGet(searchParams, "total")
           splitCount == SearchParamsGet(searchParams, "splitCount")
       IN  meta' = [meta EXCEPT !.og =
                       IF ~isBot THEN "index"
                       ELSE IF handlerIsSplitPayment(splitCount, total)
                            THEN "split" ELSE "plain"]
    /\ UNCHANGED <<formAmount, description, participants, copiedLink, opened,
                   publicKey>>
    /\ CheckoutUnchanged

\* the effect of usePaymentMetaTags on the parameters of the opened link:
\* it writes nothing when the amount or the label is missing
usePaymentMetaTags ==
    /\ opened.isOpen
    /\ IF ~Truthy(opened.amount) \/ ~Truthy(opened.label)
       THEN meta' = meta
       ELSE meta' = [meta EXCEPT !.document =
                        IF Truthy(opened.splitCount) /\ Truthy(opened.total)
                        THEN "split" ELSE "plain"]
    /\ UNCHANGED <<formAmount, description, participants, copiedLink, opened,
                   publicKey>>
    /\ CheckoutUnchanged

QueryNext ==
    \/ OpenLink
    \/ \E isBot \in BOOLEAN : handler(isBot)
    \/ usePaymentMetaTags

QuerySpec == QueryInit /\ [][QueryNext]_vars

\* =============================================================== claims
Attempts == 1..Len(attempts)
Txs == 1..Len(txs)
TxsOf(i) == {k \in Txs : txs[k].attempt = i}

\* C1: transactionStatus becomes success or failed only in a step that
\* starts from processing, on every copy of the page
C1_TerminalOnlyFromProcessing ==
    [][(transactionStatus' # transactionStatus
            /\ transactionStatus' \in {"success", "failed"})
        => transactionStatus = "processing"]_vars

\* C2: at most one invocation of handlePayment is in flight at any time,
\* isProcessing is set while it runs, and the running invocation has at
\* most one submission built from its balance snapshot
C2_SingleFlight ==
    /\ Cardinality(InFlight) <= 1
    /\ \A i \in InFlight : isProcessing /\ Cardinality(TxsOf(i)) <= 1

C2_Witness ==
    /\ \E i \in InFlight : attempts[i].pc = "confirm"
    /\ View = "main" /\ connected /\ isProcessing
    /\ Len(attempts) < MaxAttempts

\* C3: an invocation calls sendTransaction only for a link that passes
\* validation (recipient well-formed, amount present and > 0) and after
\* it found the payer's account with a sufficient balance; an invocation
\* that ended on a decode or build error called sendTransaction never
C3_SubmitAfterValidation ==
    \A i \in Attempts :
        /\ (attempts[i].sent > 0 \/ TxsOf(i) # {}) =>
              /\ recipient # "" /\ IsPublicKey(recipient)
              /\ amount # "" /\ JsLess(Num(0), parseFloat(amount))
              /\ attempts[i].payerFound
              /\ JsLessEq(parseFloat(amount), attempts[i].payerBalance)
        /\ attempts[i].outcome \in {"DecodeError", "BuildError",
                "PayerAccountMissing", "InsufficientBalance"} =>
              attempts[i].sent = 0 /\ TxsOf(i) = {}

C3_Witness ==
    \E i \in Attempts, j \in Attempts :
        /\ attempts[i].outcome = "InsufficientBalance"
        /\ TxsOf(j) # {}

\* C4: a failure before the submission was accepted and a failure after it
\* was accepted never end in the same error kind
C4_LandedKindsDistinct ==
    \A r1 \in results, r2 \in results :
        r1.kind = r2.kind => r1.landed = r2.landed

\* C5: an invocation that finds the payer's balance below the required
\* amount ends with InsufficientBalance, its toast carries the balance and
\* the required amount, and it submits nothing
C5_InsufficientBalance ==
    \A i \in Attempts :
        (attempts[i].payerFound
            /\ JsLess(attempts[i].payerBalance, parseFloat(amount))) =>
          /\ attempts[i].outcome = "InsufficientBalance"
          /\ attempts[i].instructions = <<>>
          /\ attempts[i].sent = 0 /\ TxsOf(i) = {}
          /\ i = Len(attempts) =>
                toast = [kind |-> "InsufficientBalance",
                         balance |-> attempts[i].payerBalance,
                         required |-> parseFloat(amount)]

C5_Witness ==
    \E i \in Attempts :
        /\ attempts[i].outcome = "InsufficientBalance"
        /\ attempts[i].payerBalance = Num(5 * Unit)
        /\ parseFloat(amount) = Num((82 * Unit) \div 10)
        /\ toast.kind = "InsufficientBalance"

\* C6: an invocation that does not find the payer's account ends with
\* PayerAccountMissing without instructions or submission, and no
\* invocation ever builds a create-account instruction for the payer's own
\* holding account
C6_PayerAccountNeverCreated ==
    \A i \in Attempts :
        /\ attempts[i].outcome = "PayerAccountMissing" =>
              attempts[i].instructions = <<>> /\ attempts[i].sent = 0
        /\ \A j \in 1..Len(attempts[i].instructions) :
              ~(attempts[i].instructions[j].op = "create"
                    /\ attempts[i].instructions[j].owner = PayerAddr)

\* C7: the instructions are <<create, transfer>> when the recipient has no
\* holding account and <<transfer>> when it has one
C7_OperationList ==
    \A i \in Attempts :
        attempts[i].instructions # <<>> =>
            LET units == AmountInTokenUnits(amount).v
                transfer == TransferOp(PayerAddr, recipient, units)
            IN  attempts[i].instructions =
                    IF attempts[i].recipientAbsent
                    THEN <<CreateOp(PayerAddr, recipient), transfer>>
                    ELSE <<transfer>>

\* C8: an invocation hands its instructions to the ledger in one
\* submission, the create-account instruction before the transfer, and
\* never a create-account instruction without the transfer
C8_OneAtomicSubmission ==
    /\ \A i \in Attempts :
          /\ attempts[i].sent <= 1
          /\ Cardinality(TxsOf(i)) <= 1
          /\ \A k \in TxsOf(i) : txs[k].ops = attempts[i].instructions
    /\ \A k \in Txs :
          LET ops == txs[k].ops
          IN  /\ ops[Len(ops)].op = "transfer"
              /\ \A j \in 1..Len(ops) - 1 : ops[j].op = "create"

C8_Witness ==
    \E k \in Txs : Len(txs[k].ops) = 2 /\ txs[k].state = "finalized"

\* C9: when the status is success the stored signature is the one the
\* submission of the same invocation returned, and the ledger had
\* finalized that transaction
C9_SuccessCarriesSignature ==
    transactionStatus = "success" =>
        /\ transactionSignature # ""
        /\ attempts # <<>>
        /\ LET a == attempts[Len(attempts)]
           IN  /\ a.outcome = "success"
               /\ a.signature = transactionSignature
               /\ \E k \in TxsOf(Len(attempts)) :
                     /\ txs[k].sig = transactionSignature
                     /\ txs[k].state \in {"finalized", "finalizedErr"}

C9_Witness ==
    /\ transactionStatus = "success"
    /\ Len(attempts) = 2
    /\ attempts[1].signature # ""

\* C10: once an invocation has failed, no invocation runs and nothing is
\* submitted until the user has clicked Try Again and then the pay button
C10_RetryIsExplicit ==
    /\ InFlight # {} => sinceFailed \in {"none", "pay"}
    /\ transactionStatus = "failed" => InFlight = {}

C10_Witness ==
    /\ sinceFailed = "pay"
    /\ \E k \in TxsOf(2) : txs[k].state = "pending"
    /\ attempts[1].outcome = "ExecutionError"

\* C11: a retry asks the ledger again and builds its operations from
\* the answers: a retry whose recipient holding account existed at its
\* query, after an earlier attempt had found it absent, has no
\* create-account operation, and a retry whose payer balance at its query
\* was below the amount is rejected before anything is sent
C11_RetryRebuildsFromFreshAnswers ==
    \A i \in Attempts :
        i > 1 =>
            /\ (/\ attempts[i].instructions # <<>>
                /\ ~attempts[i].recipientAbsent
                /\ \E j \in 1..(i - 1) : attempts[j].recipientAbsent) =>
                  \A j \in DOMAIN attempts[i].instructions :
                      attempts[i].instructions[j].op # "create"
            /\ (attempts[i].payerFound
                  /\ JsLess(attempts[i].payerBalance, parseFloat(amount))) =>
                  /\ attempts[i].outcome = "InsufficientBalance"
                  /\ attempts[i].sent = 0

\* the three fields of the settlement result
SettlementResult == <<transactionStatus, transactionSignature, transactionError>>

\* C12 as stated: once the status is success or failed, no later action
\* changes the status, the signature or the error of the result
C12_TerminalResultImmutable ==
    [][(transactionStatus = "success" \/ transactionStatus = "failed")
            => SettlementResult' = SettlementResult]_vars

\* C12 amended: a success result is never changed; a failed result is
\* changed by Try Again only, which resets the status to idle and clears
\* the signature and the error in one step, before any new attempt starts
C12_TerminalChangedOnlyByTryAgain ==
    [][/\ transactionStatus = "success" => SettlementResult' = SettlementResult
       /\ (transactionStatus = "failed" /\ SettlementResult' # SettlementResult) =>
             /\ SettlementResult' = <<"idle", "", "">>
             /\ UNCHANGED <<attempts, txs, isProcessing>>]_vars

C12_Witness ==
    /\ transactionStatus = "idle"
    /\ sinceFailed = "tryAgain"
    /\ \E i \in Attempts : attempts[i].signature # ""

C14_UnchangedBalanceFails ==
    \A i \in Attempts :
        attempts[i].warned =>
            /\ attempts[i].outcome = "ExecutionError"
            /\ transactionStatus # "success"

\* C15: when the wait for finality has timed out, the attempt has ended
\* failed and its failure is recorded with the kind NetworkTimeout
C15_TimeoutIsNetworkTimeout ==
    (sinceFailed = "failed" /\ err.thrown /\ err.message \in ConfirmErrors) =>
        /\ transactionStatus = "failed"
        /\ InFlight = {}
        /\ \E r \in results : r.kind = "NetworkTimeout" /\ r.landed

\* C16: on the checkout page a link that cannot be decoded is reported
\* with an error that tells its kind: the recipient is tested before the
\* amount, and of two links reported with the same error both have the
\* same kind among MissingRecipient, InvalidRecipient, MissingAmount (no
\* amount) and InvalidAmount (an amount that is zero or negative)
C16_DecodeKindsDistinct ==
    LET Kind(r, a) ==
            IF r = "" THEN "MissingRecipient"
            ELSE IF ~IsPublicKey(r) THEN "InvalidRecipient"
            ELSE IF a = "" THEN "MissingAmount"
            ELSE IF JsLessEq(parseFloat(a), Num(0)) THEN "InvalidAmount"
            ELSE "none"
    IN  (page = "TransferRedirect" /\ Kind(recipient, amount) # "none") =>
            /\ error # ""
            /\ \A r \in RecipientParams, a \in AmountParams :
                  ValidationError(r, a) = error =>
                      Kind(r, a) = Kind(recipient, amount)

\* C17: a link whose amount is present but is not a number is rejected
\* by the validation of the checkout page, and no payment attempt is ever
\* started for it
C17_UnparseableAmountRejected ==
    (page = "TransferRedirect" /\ amount # "" /\ parseFloat(amount).nan) =>
        /\ error # ""
        /\ attempts = <<>>

\* C18: what the checkout page reads from an opened link is what the form
\* gave to the encoder: the recipient, the amount, the label and the
\* message, and for a split link the total (as a number) and the split
\* count, whatever characters the description holds
C18_RoundTrip ==
    opened.isOpen =>
        /\ opened.recipient = [present |-> TRUE, value |-> <<PayerAddr>>]
        /\ opened.label = [present |-> TRUE, value |-> description]
        /\ opened.message.present
        /\ opened.amount.present
        /\ page = "Pay" =>
              /\ opened.amount.value = formAmount
              /\ opened.message.value = <<"Payment", " ", "for", " ">> \o description
              /\ ~opened.total.present
              /\ ~opened.splitCount.present
        /\ page = "Request" =>
              /\ parseFloatTyped(opened.amount.value) =
                    (LET cents == BaseShareCents(
                                      MathRoundTimes100(parseFloatTyped(formAmount)),
                                      participants + 1)
                     IN  IF cents.nan THEN NaN ELSE Num(cents.v * 10))
              /\ opened.message.value =
                    <<"Split", " ", "payment", " ", "for", " ">> \o description
              /\ opened.total.present
              /\ parseFloatTyped(opened.total.value) = parseFloatTyped(formAmount)
              /\ opened.splitCount.present
              /\ DigitsValue(opened.splitCount.value) = participants + 1

C18_Witness ==
    /\ opened.isOpen
    /\ page = "Request"
    /\ description = <<"%", "+">>
    /\ opened.label.value = <<"%", "+">>
    /\ formAmount = <<"0", ".", "5", "0">>
    /\ opened.total.value = <<"0", ".", "5">>

\* the split link that was opened came from a total that is a number
SplitLinkOpened ==
    /\ opened.isOpen
    /\ page = "Request"
    /\ ~parseFloatTyped(formAmount).nan

\* the split of the opened link: N participants, the total in cents as
\* handleRequest rounds it, and the share in cents the link asks of each
SplitCount == participants + 1
TotalCents == MathRoundTimes100(parseFloatTyped(formAmount)).v
ShareCents == parseFloatTyped(opened.amount.value).v \div 10

\* C19: the shares handed to the N participants sum to exactly totalCents
\* and differ from each other by one cent at most
C19_SharesSumToTotal ==
    SplitLinkOpened =>
        LET shares == [i \in 1..SplitCount |-> ShareCents]
        IN  /\ SplitCount * ShareCents = TotalCents
            /\ \A i, j \in 1..SplitCount : shares[i] - shares[j] <= 1

\* C20 as stated: the link's amount is floor(totalCents / N), and what
\* the N shares collect does not exceed the total and falls short of the
\* total by exactly the remainder, in cents
C20_ShortfallOfTotal ==
    SplitLinkOpened =>
        LET r == TotalCents - SplitCount * ShareCents
            totalMills == parseFloatTyped(formAmount).v
        IN  /\ 0 <= r /\ r < SplitCount
            /\ SplitCount * ShareCents * 10 <= totalMills
            /\ totalMills - SplitCount * ShareCents * 10 = r * 10

\* C20 amended: the link's amount is floor(totalCents / N); what the N
\* shares collect does not exceed totalCents, the total rounded to the
\* nearest cent, and falls short of it by exactly the remainder, which is
\* at most N - 1 cents; totalCents is within half a cent of the total
C20_ShortfallOfTotalCents ==
    SplitLinkOpened =>
        LET r == TotalCents - SplitCount * ShareCents
            totalMills == parseFloatTyped(formAmount).v
        IN  /\ 0 <= r /\ r < SplitCount
            /\ r = Remainder(Num(TotalCents), SplitCount).v
            /\ SplitCount * ShareCents <= TotalCents
            /\ TotalCents * 10 - totalMills <= 5
            /\ totalMills - TotalCents * 10 <= 5

C20_Witness ==
    /\ SplitLinkOpened
    /\ formAmount = <<"1", "0", ".", "0", "0">>
    /\ participants = 2
    /\ opened.amount.value = <<"3", ".", "3", "3">>
    /\ TotalCents - SplitCount * ShareCents = 1

\* C21: every link the split form has produced from a total that is a
\* number asks a share that is a number greater than 0
C21_SharePositive ==
    SplitLinkOpened =>
        /\ opened.amount.present
        /\ ~parseFloatTyped(opened.amount.value).nan
        /\ parseFloatTyped(opened.amount.value).v > 0

\* C22: an opened link carries splitCount only together with total and
\* only as an integer of 2 or more, and a link the split form produced
\* with no added participant carries no splitCount and is not shown as a
\* split payment
C22_SplitCountOnlyForSplits ==
    opened.isOpen =>
        /\ opened.splitCount.present =>
              /\ opened.total.present
              /\ DigitsValue(opened.splitCount.value) >= 2
        /\ (page = "Request" /\ participants = 0) =>
              /\ ~opened.splitCount.present
              /\ ~isSplitPayment(opened)

\* C23: the transfer of every submission moves exactly the link's amount
\* in base units, that is its cents times 10^4
C23_SentEqualsRequested ==
    \A k \in Txs :
        \A j \in DOMAIN txs[k].ops :
            txs[k].ops[j].op = "transfer" =>
                /\ ~parseFloat(amount).nan
                /\ txs[k].ops[j].units = parseFloat(amount).v

\* C24: for every query the checkout page, the responder and the meta-tag
\* hook classify the link alike: a split exactly when total and splitCount
\* are both present and non-empty
C24_OneSplitRule ==
    opened.isOpen =>
        LET both == /\ opened.total.present /\ opened.total.value # <<>>
                    /\ opened.splitCount.present /\ opened.splitCount.value # <<>>
        IN  /\ isSplitPayment(opened) <=> both
            /\ meta.og \in {"split", "plain"} => (meta.og = "split" <=> both)
            /\ meta.document \in {"split", "plain"} =>
                  (meta.document = "split" <=> both)

C24_Witness ==
    /\ opened.isOpen
    /\ isSplitPayment(opened)
    /\ meta.og = "split"
    /\ meta.document = "split"

\* C25: once no invocation of handlePayment is running any more, the status
\* is not left at processing: every attempt for an amount that is a number
\* has set success or failed when it has ended
C25_NoAttemptEndsProcessing ==
    (InFlight = {} /\ ~parseFloat(amount).nan) => transactionStatus # "processing"

\* C26: an invocation builds a create-account instruction only when the
\* recipient's holding account is absent from the ledger at its query
C26_CreateOnlyWhenAbsent ==
    \A i \in Attempts :
        (\E j \in 1..Len(attempts[i].instructions) :
              attempts[i].instructions[j].op = "create")
            => attempts[i].recipientAbsent

\* C27: isProcessing is TRUE exactly while an invocation of handlePayment
\* is between its first ledger query and its end, so it is FALSE after
\* every way an attempt ends and the pay button is enabled again wherever
\* the main view shows it to a connected wallet
C27_ProcessingOnlyWhileRunning ==
    /\ isProcessing <=> InFlight # {}
    /\ (InFlight = {} /\ View = "main" /\ connected) => PayButtonEnabled

C27_Witness ==
    /\ Len(attempts) = 2
    /\ attempts[1].outcome \in {"PayerAccountMissing", "InsufficientBalance"}
    /\ attempts[2].outcome = "ExecutionError"
    /\ InFlight = {}
    /\ ~isProcessing

\* C28: the amount the split form shows under 'Each person pays' is the
\* amount of the link it produces from the same total and participants
C28_DisplayedShareIsLinkShare ==
    (SplitLinkOpened /\ EachPersonPaysShown) =>
        /\ opened.amount.present
        /\ opened.amount.value = EachPersonPays

\* C29: a form replaces the link it shows only while the wallet is
\* connected with a key and the description is not blank, and the new
\* link names that key as recipient; in any other state the link shown
\* stays as it was
C29_LinkOnlyFromConnectedWallet ==
    [][copiedLink' # copiedLink =>
          /\ connected
          /\ publicKey # NoKey
          /\ Trim(description) # <<>>
          /\ SearchParamsGet(ParseQuery(copiedLink'), "recipient")
                = [present |-> TRUE, value |-> <<publicKey>>]]_vars

C29_Witness ==
    /\ copiedLink # <<>>
    /\ SearchParamsGet(ParseQuery(copiedLink), "recipient").value = <<RecipientAddr>>
    /\ connected
    /\ publicKey = PayerAddr
    /\ Trim(description) = <<>>
    /\ toast = [kind |-> "error", text |-> "Please add what this is for"]

\* C30: whenever the wallet that signed in is connected, also after the
\* page was loaded again and the wallet has reconnected, the session is
\* authenticated for that address
C30_SessionRestoredOnReconnect ==
    (signedIn # NoKey /\ connected /\ publicKey = signedIn) =>
        (isAuthenticated /\ walletAddress = signedIn)

====
